---- MODULE Spec2Model ----
(***************************************************************************)
(* Kokum & Coast API (src/main.py, src/schemas.py).                        *)
(*                                                                         *)
(* The state is the four document collections the handlers write, the      *)
(* server clock, the number of requests started, the size of the thread    *)
(* pool and the position of each of its workers (FastAPI runs synchronous  *)
(* handlers on a thread pool, so two handlers may interleave between their *)
(* store operations) and the last response sent.  Every handler is one action, except the two seed        *)
(* handlers, which make several store calls and are split at those calls.  *)
(*                                                                         *)
(* Time is counted in ticks, TicksPerSec ticks to a second: datetimes      *)
(* carry sub-second precision, JWT time claims are whole seconds.          *)
(* Reservations and orders carry their timestamps; the created_at of menu  *)
(* items and reviews, which no handler reads or rewrites, is left out.     *)
(***************************************************************************)
EXTENDS Integers, FiniteSets, Sequences, TLC

VARIABLES workers, clock, menuitem, reservation, order, review, pc, started, resp

vars == <<workers, clock, menuitem, reservation, order, review, pc, started, resp>>
store == <<menuitem, reservation, order, review>>

---------------------------------------------------------------------------
(* Bounds of the model *)

MaxClock == 2
MaxRequests == 2
TicksPerSec == 2
Workers == 2

Procs == 1 .. workers

\* Between two readings of datetime.now in one handler the clock stays or
\* advances by a tick
Drift == {0, 1}

---------------------------------------------------------------------------
(* Configuration: src/main.py:16-19 *)

JWT_SECRET == "dev-secret-change-me"
ADMIN_EMAIL == "admin@kokumandcoast.in"
ADMIN_PASSWORD == "admin123"
TOKEN_LIFETIME == 8 * 3600 * TicksPerSec   \* timedelta(hours=8), in ticks

---------------------------------------------------------------------------
(* Strings and identifiers *)

\* str.lower() on the e-mail addresses the model presents
lower(s) ==
    CASE s = "ADMIN@KokumAndCoast.IN" -> "admin@kokumandcoast.in"
      [] s = "Guest@Example.com" -> "guest@example.com"
      [] OTHER -> s

\* ObjectId(): a fresh identifier.  The n-th identifier generated by the
\* r-th request is <<r, n>>; no two are equal, and the code relies on
\* nothing else.
NewObjectId(r, n) == <<r, n>>

\* A path parameter.  hex = TRUE: the 24-hex-digit rendering of the ObjectId
\* val; hex = FALSE: any other string.
NoId == [hex |-> FALSE, val |-> <<0, 0>>]

\* oid(obj): str(ObjectId)
oid(obj) == [hex |-> TRUE, val |-> obj]

\* bson.ObjectId(s): the ObjectId of a well-formed string, InvalidId otherwise
ObjectIdValid(s) == s.hex
ObjectId(s) == s.val

---------------------------------------------------------------------------
(* Tokens *)

NoCreds == [kind |-> "none", key |-> "", role |-> "", exp |-> 0, iat |-> 0, sub |-> ""]

\* calendar.timegm(dt.utctimetuple()): a datetime as whole seconds
timegm(t) == t \div TicksPerSec

\* jwt.encode: datetime claims become whole seconds, the payload is signed
jwt_encode(payload, key) ==
    [kind |-> "jwt", key |-> key, role |-> payload.role,
     exp |-> timegm(payload.exp), iat |-> timegm(payload.iat), sub |-> payload.sub]

\* create_jwt(email); t1 and t2 are the two readings of datetime.now
create_jwt(email, t1, t2) ==
    jwt_encode([sub |-> email, exp |-> t1 + TOKEN_LIFETIME, iat |-> t2, role |-> "admin"],
               JWT_SECRET)

\* What a client may present: no Authorization header, a string that is no
\* JWT, and JWTs expiring at second 1 or 8 hours after second 0: signed with
\* the server's secret, with role admin or not, or signed with another one.
Creds ==
    {NoCreds, [NoCreds EXCEPT !.kind = "garbage"]}
    \cup [kind : {"jwt"}, key : {JWT_SECRET}, role : {"admin", "user"},
          exp : {1, timegm(TOKEN_LIFETIME)}, iat : {0}, sub : {ADMIN_EMAIL}]
    \cup [kind : {"jwt"}, key : {"other-secret"}, role : {"admin"},
          exp : {1, timegm(TOKEN_LIFETIME)}, iat : {0}, sub : {ADMIN_EMAIL}]

\* jwt.decode(token, key, algorithms): the error it raises, or "ok"
jwt_decode(token, key, now) ==
    IF token.kind # "jwt" THEN "DecodeError"
    ELSE IF token.key # key THEN "InvalidSignatureError"
    ELSE IF token.exp * TicksPerSec <= now THEN "ExpiredSignatureError"
    ELSE "ok"

\* The body of require_admin's try block: what it raises, or "ok"
require_admin_try(token, now) ==
    LET d == jwt_decode(token, JWT_SECRET, now) IN
    IF d # "ok" THEN d
    ELSE IF token.role # "admin" THEN "HTTPException"
    ELSE "ok"

\* require_admin with the ExpiredSignatureError handler lost: every failure
\* of the try block is reported by the general handler
require_admin_one_handler(creds, now) ==
    IF creds.kind = "none" THEN [ok |-> FALSE, code |-> 401, detail |-> "Missing credentials"]
    ELSE IF require_admin_try(creds, now) = "ok" THEN [ok |-> TRUE, code |-> 200, detail |-> ""]
    ELSE [ok |-> FALSE, code |-> 401, detail |-> "Invalid token"]

\* require_admin(creds): [ok, code, detail]
require_admin(creds, now) ==
    IF creds.kind = "none" THEN [ok |-> FALSE, code |-> 401, detail |-> "Missing credentials"]
    ELSE LET raised == require_admin_try(creds, now) IN
         IF raised = "ok" THEN [ok |-> TRUE, code |-> 200, detail |-> ""]
         ELSE IF raised = "ExpiredSignatureError"
              THEN [ok |-> FALSE, code |-> 401, detail |-> "Token expired"]
         ELSE [ok |-> FALSE, code |-> 401, detail |-> "Invalid token"]

---------------------------------------------------------------------------
(* Responses *)

Response(route, code, detail) ==
    [route |-> route, code |-> code, detail |-> detail,
     id |-> NoId, status |-> "", token |-> NoCreds, count |-> 0]

Denied(route, auth) == Response(route, auth.code, auth.detail)

---------------------------------------------------------------------------
(* Store operations (pymongo collection methods) *)

insert_one(coll, doc) == coll \cup {doc}
count_documents(coll) == Cardinality(coll)
matched(coll, id) == {d \in coll : d._id = id}
delete_one(coll, id) == coll \ matched(coll, id)

\* {"$set": upd} on one document
ApplySet(doc, upd) ==
    [k \in DOMAIN doc \cup DOMAIN upd |-> IF k \in DOMAIN upd THEN upd[k] ELSE doc[k]]

update_one(coll, id, upd) ==
    {IF d._id = id THEN ApplySet(d, upd) ELSE d : d \in coll}

---------------------------------------------------------------------------
(* Workers *)

Idle == [at |-> "idle", i |-> 0, req |-> 0]
SomeIdle == \E p \in Procs : pc[p] = Idle
CanStart == started < MaxRequests /\ SomeIdle

Start(n) ==
    /\ workers = n
    /\ clock = 0
    /\ menuitem = {}
    /\ reservation = {}
    /\ order = {}
    /\ review = {}
    /\ pc = [p \in Procs |-> Idle]
    /\ started = 0
    /\ resp = Response("none", 0, "")

Init == Start(Workers)

Tick ==
    /\ clock < MaxClock
    /\ clock' = clock + 1
    /\ UNCHANGED <<workers, store, pc, started, resp>>

---------------------------------------------------------------------------
(* Auth *)

Emails == {ADMIN_EMAIL, "ADMIN@KokumAndCoast.IN", "Guest@Example.com"}
Passwords == {ADMIN_PASSWORD, "Admin123"}

\* POST /api/auth/login
login(email, password) ==
    /\ CanStart
    /\ started' = started + 1
    /\ IF lower(email) = lower(ADMIN_EMAIL) /\ password = ADMIN_PASSWORD
       THEN \E d \in Drift :
               /\ clock + d <= MaxClock
               /\ clock' = clock + d
               /\ resp' = [Response("login", 200, "") EXCEPT
                              !.token = create_jwt(email, clock, clock + d)]
       ELSE /\ resp' = Response("login", 401, "Invalid credentials")
            /\ clock' = clock
    /\ UNCHANGED <<workers, store, pc>>

---------------------------------------------------------------------------
(* Request bodies *)

Absent == "<absent>"                      \* an optional field the body omits
Given(v, default) == IF v = Absent THEN default ELSE v

\* The identifiers a client may put in a path: the string of every stored
\* document, of one ObjectId that was never stored, and a string that is no
\* ObjectId at all.
IdStrings ==
    {oid(d._id) : d \in menuitem \cup reservation \cup order \cup review}
    \cup {oid(NewObjectId(0, 1)), [hex |-> FALSE, val |-> <<0, 1>>]}

MenuItemInputs == [name : {"Vada Pav"}, price : {-5, 60}]
MenuItemValid(item) == item.price >= 0                       \* Field(..., ge=0)

ReservationInputs == [guests : {0, 2, 21}, status : {Absent, "confirmed"}]
ReservationValid(data) == data.guests >= 1 /\ data.guests <= 20   \* ge=1, le=20

OrderItems == {<<[name |-> "Sol Kadhi", qty |-> 2, price |-> 180]>>,
               <<[name |-> "Sol Kadhi", qty |-> 0, price |-> 180]>>}
OrderInputs ==
    [items : OrderItems, subtotal : {360}, taxes : {18}, total : {378},
     customer_name : {"Asha"}, status : {Absent}, payment_status : {Absent, "paid"}]
OrderValid(o) ==
    /\ \A i \in 1 .. Len(o.items) : o.items[i].qty >= 1 /\ o.items[i].price >= 0
    /\ o.subtotal >= 0 /\ o.taxes >= 0 /\ o.total >= 0

PatchStatuses == {"confirmed", "bogus"}
PatchPayments == {Absent, "", "refunded"}
Limits == {1}

Min(a, b) == IF a < b THEN a ELSE b

---------------------------------------------------------------------------
(* Menu *)

\* POST /api/menu
create_menu_item(creds, item) ==
    /\ CanStart
    /\ started' = started + 1
    /\ LET auth == require_admin(creds, clock) IN
       IF ~auth.ok
       THEN /\ resp' = Denied("create_menu_item", auth)
            /\ UNCHANGED menuitem
       ELSE IF ~MenuItemValid(item)
       THEN /\ resp' = Response("create_menu_item", 422, "validation")
            /\ UNCHANGED menuitem
       ELSE /\ menuitem' = insert_one(menuitem,
                   [_id |-> NewObjectId(started + 1, 1), name |-> item.name, price |-> item.price])
            /\ resp' = [Response("create_menu_item", 200, "") EXCEPT !.id = oid(NewObjectId(started + 1, 1))]
    /\ UNCHANGED <<workers, clock, reservation, order, review, pc>>

\* DELETE /api/menu/{item_id}
delete_menu_item(creds, item_id) ==
    /\ CanStart
    /\ started' = started + 1
    /\ LET auth == require_admin(creds, clock) IN
       IF ~auth.ok
       THEN /\ resp' = Denied("delete_menu_item", auth)
            /\ UNCHANGED menuitem
       ELSE IF ~ObjectIdValid(item_id)
       THEN /\ resp' = Response("delete_menu_item", 500, "Internal Server Error")
            /\ UNCHANGED menuitem
       ELSE IF matched(menuitem, ObjectId(item_id)) = {}
       THEN /\ resp' = Response("delete_menu_item", 404, "Not found")
            /\ UNCHANGED menuitem
       ELSE /\ menuitem' = delete_one(menuitem, ObjectId(item_id))
            /\ resp' = Response("delete_menu_item", 200, "")
    /\ UNCHANGED <<workers, clock, reservation, order, review, pc>>

MENU_SAMPLE ==
    << [name |-> "Goan Prawn Croquette", price |-> 420],
       [name |-> "Kokum Fish Curry", price |-> 590],
       [name |-> "Mumbai Biryani", price |-> 520],
       [name |-> "Sol Kadhi", price |-> 180],
       [name |-> "Puran Poli", price |-> 260],
       [name |-> "Masala Chai", price |-> 120] >>

\* seed_menu with the guard comparing against the sample's size
menu_seeded_full(coll) == count_documents(coll) > 6

\* The guard of seed_menu: the collection already holds a document
menu_seeded(coll) == count_documents(coll) > 0

\* POST /api/menu/seed, up to and including count_documents
seed_menu(p, creds) ==
    /\ started < MaxRequests
    /\ pc[p] = Idle
    /\ started' = started + 1
    /\ LET auth == require_admin(creds, clock) IN
       IF ~auth.ok
       THEN /\ resp' = Denied("seed_menu", auth)
            /\ pc' = pc
       ELSE IF menu_seeded(menuitem)
       THEN /\ resp' = Response("seed_menu", 200, "Menu already seeded")
            /\ pc' = pc
       ELSE /\ pc' = [pc EXCEPT ![p] = [at |-> "seed_menu", i |-> 1, req |-> started + 1]]
            /\ resp' = resp
    /\ UNCHANGED <<workers, clock, store>>

\* POST /api/menu/seed, one pass of the insert loop (and the return after
\* the last one)
seed_menu_insert(p) ==
    /\ pc[p].at = "seed_menu"
    /\ LET i == pc[p].i IN
       /\ menuitem' = insert_one(menuitem,
              [_id |-> NewObjectId(pc[p].req, i), name |-> MENU_SAMPLE[i].name,
               price |-> MENU_SAMPLE[i].price])
       /\ IF i < Len(MENU_SAMPLE)
          THEN /\ pc' = [pc EXCEPT ![p] = [pc[p] EXCEPT !.i = i + 1]]
               /\ resp' = resp
          ELSE /\ pc' = [pc EXCEPT ![p] = Idle]
               /\ resp' = [Response("seed_menu", 200, "inserted") EXCEPT
                              !.count = Len(MENU_SAMPLE)]
    /\ UNCHANGED <<workers, clock, reservation, order, review, started>>

---------------------------------------------------------------------------
(* Reservations *)

\* POST /api/reservations
create_reservation(data) ==
    /\ CanStart
    /\ started' = started + 1
    /\ IF ~ReservationValid(data)
       THEN /\ resp' = Response("create_reservation", 422, "validation")
            /\ UNCHANGED <<workers, clock, reservation>>
       ELSE \E d \in Drift :
               /\ clock + d <= MaxClock
               /\ clock' = clock + d
               /\ reservation' = insert_one(reservation,
                      [_id |-> NewObjectId(started + 1, 1), guests |-> data.guests,
                       status |-> Given(data.status, "pending"),
                       created_at |-> clock, updated_at |-> clock + d])
               /\ resp' = [Response("create_reservation", 200, "") EXCEPT
                              !.id = oid(NewObjectId(started + 1, 1)), !.status = "pending"]
    /\ UNCHANGED <<workers, menuitem, order, review, pc>>

\* GET /api/reservations
list_reservations(creds, limit) ==
    /\ CanStart
    /\ started' = started + 1
    /\ LET auth == require_admin(creds, clock) IN
       IF ~auth.ok
       THEN resp' = Denied("list_reservations", auth)
       ELSE resp' = [Response("list_reservations", 200, "") EXCEPT
                        !.count = Min(limit, Cardinality(reservation))]
    /\ UNCHANGED <<workers, clock, store, pc>>

\* PATCH /api/reservations/{res_id}
update_reservation_status(creds, res_id, status) ==
    /\ CanStart
    /\ started' = started + 1
    /\ LET auth == require_admin(creds, clock) IN
       IF ~auth.ok
       THEN /\ resp' = Denied("update_reservation_status", auth)
            /\ UNCHANGED reservation
       ELSE IF ~ObjectIdValid(res_id)
       THEN /\ resp' = Response("update_reservation_status", 500, "Internal Server Error")
            /\ UNCHANGED reservation
       ELSE IF matched(reservation, ObjectId(res_id)) = {}
       THEN /\ resp' = Response("update_reservation_status", 404, "Not found")
            /\ UNCHANGED reservation
       ELSE /\ reservation' = update_one(reservation, ObjectId(res_id),
                   [status |-> status, updated_at |-> clock])
            /\ resp' = Response("update_reservation_status", 200, "")
    /\ UNCHANGED <<workers, clock, menuitem, order, review, pc>>

---------------------------------------------------------------------------
(* Orders *)

\* POST /api/orders
create_order(o) ==
    /\ CanStart
    /\ started' = started + 1
    /\ IF ~OrderValid(o)
       THEN /\ resp' = Response("create_order", 422, "validation")
            /\ UNCHANGED <<workers, clock, order>>
       ELSE \E d \in Drift :
               /\ clock + d <= MaxClock
               /\ clock' = clock + d
               /\ order' = insert_one(order,
                      [_id |-> NewObjectId(started + 1, 1), items |-> o.items, subtotal |-> o.subtotal,
                       taxes |-> o.taxes, total |-> o.total,
                       customer_name |-> o.customer_name,
                       status |-> Given(o.status, "received"),
                       payment_status |-> Given(o.payment_status, "pending"),
                       created_at |-> clock, updated_at |-> clock + d])
               /\ resp' = [Response("create_order", 200, "") EXCEPT
                              !.id = oid(NewObjectId(started + 1, 1)),
                              !.status = Given(o.status, "received")]
    /\ UNCHANGED <<workers, menuitem, reservation, review, pc>>

\* GET /api/orders
list_orders(creds, limit) ==
    /\ CanStart
    /\ started' = started + 1
    /\ LET auth == require_admin(creds, clock) IN
       IF ~auth.ok
       THEN resp' = Denied("list_orders", auth)
       ELSE resp' = [Response("list_orders", 200, "") EXCEPT
                        !.count = Min(limit, Cardinality(order))]
    /\ UNCHANGED <<workers, clock, store, pc>>

\* update_order_status writing payment_status whether or not the body has it
order_update_always(status, payment_status) ==
    [status |-> status,
     payment_status |-> IF payment_status = Absent THEN "pending" ELSE payment_status]

\* The update document of update_order_status
order_update(status, payment_status) ==
    IF payment_status # Absent /\ payment_status # ""
    THEN [status |-> status, payment_status |-> payment_status]
    ELSE [status |-> status]

\* PATCH /api/orders/{order_id}
update_order_status(creds, order_id, status, payment_status) ==
    /\ CanStart
    /\ started' = started + 1
    /\ LET auth == require_admin(creds, clock) IN
       IF ~auth.ok
       THEN /\ resp' = Denied("update_order_status", auth)
            /\ UNCHANGED order
       ELSE IF ~ObjectIdValid(order_id)
       THEN /\ resp' = Response("update_order_status", 500, "Internal Server Error")
            /\ UNCHANGED order
       ELSE IF matched(order, ObjectId(order_id)) = {}
       THEN /\ resp' = Response("update_order_status", 404, "Not found")
            /\ UNCHANGED order
       ELSE /\ order' = update_one(order, ObjectId(order_id),
                                   order_update(status, payment_status))
            /\ resp' = Response("update_order_status", 200, "")
    /\ UNCHANGED <<workers, clock, menuitem, reservation, review, pc>>

---------------------------------------------------------------------------
(* Reviews *)

REVIEW_SAMPLE ==
    << [name |-> "Aarav", rating |-> 5],
       [name |-> "Meera", rating |-> 5],
       [name |-> "Zahir", rating |-> 4] >>

\* POST /api/reviews/seed, up to and including count_documents
seed_reviews(p, creds) ==
    /\ started < MaxRequests
    /\ pc[p] = Idle
    /\ started' = started + 1
    /\ LET auth == require_admin(creds, clock) IN
       IF ~auth.ok
       THEN /\ resp' = Denied("seed_reviews", auth)
            /\ pc' = pc
       ELSE IF count_documents(review) > 0
       THEN /\ resp' = Response("seed_reviews", 200, "Reviews already exist")
            /\ pc' = pc
       ELSE /\ pc' = [pc EXCEPT ![p] = [at |-> "seed_reviews", i |-> 1, req |-> started + 1]]
            /\ resp' = resp
    /\ UNCHANGED <<workers, clock, store>>

\* POST /api/reviews/seed, one pass of the insert loop
seed_reviews_insert(p) ==
    /\ pc[p].at = "seed_reviews"
    /\ LET i == pc[p].i IN
       /\ review' = insert_one(review,
              [_id |-> NewObjectId(pc[p].req, i), name |-> REVIEW_SAMPLE[i].name,
               rating |-> REVIEW_SAMPLE[i].rating])
       /\ IF i < Len(REVIEW_SAMPLE)
          THEN /\ pc' = [pc EXCEPT ![p] = [pc[p] EXCEPT !.i = i + 1]]
               /\ resp' = resp
          ELSE /\ pc' = [pc EXCEPT ![p] = Idle]
               /\ resp' = [Response("seed_reviews", 200, "inserted") EXCEPT
                              !.count = Len(REVIEW_SAMPLE)]
    /\ UNCHANGED <<workers, clock, menuitem, reservation, order, started>>

---------------------------------------------------------------------------
(* Analytics *)

ANALYTICS_WINDOW == 7 * 24 * 3600 * TicksPerSec    \* timedelta(days=7), in ticks

\* GET /api/analytics; of the body only the total of daily_orders is kept
analytics(creds) ==
    /\ CanStart
    /\ started' = started + 1
    /\ LET auth == require_admin(creds, clock) IN
       IF ~auth.ok
       THEN resp' = Denied("analytics", auth)
       ELSE resp' = [Response("analytics", 200, "") EXCEPT
                        !.count = Cardinality({o \in order :
                                      o.created_at >= clock - ANALYTICS_WINDOW})]
    /\ UNCHANGED <<workers, clock, store, pc>>

---------------------------------------------------------------------------
(* The system *)

\* FastAPI resolves require_admin before the handler sees its path and
\* body, so a refused request is one step whatever they hold: their values
\* are enumerated for the admitted requests only.
Admitted(c) == require_admin(c, clock).ok
PathIds(c) == IF Admitted(c) THEN IdStrings ELSE {NoId}
Statuses(c) == IF Admitted(c) THEN PatchStatuses ELSE {"confirmed"}
Payments(c) == IF Admitted(c) THEN PatchPayments ELSE {Absent}
MenuItems(c) == IF Admitted(c) THEN MenuItemInputs ELSE {[name |-> "Vada Pav", price |-> 60]}

Request ==
    \/ \E e \in Emails, pw \in Passwords : login(e, pw)
    \/ \E c \in Creds : \E item \in MenuItems(c) : create_menu_item(c, item)
    \/ \E c \in Creds : \E id \in PathIds(c) : delete_menu_item(c, id)
    \/ \E data \in ReservationInputs : create_reservation(data)
    \/ \E c \in Creds, l \in Limits : list_reservations(c, l)
    \/ \E c \in Creds : \E id \in PathIds(c), s \in Statuses(c) :
          update_reservation_status(c, id, s)
    \/ \E o \in OrderInputs : create_order(o)
    \/ \E c \in Creds, l \in Limits : list_orders(c, l)
    \/ \E c \in Creds : \E id \in PathIds(c), s \in Statuses(c), ps \in Payments(c) :
          update_order_status(c, id, s, ps)
    \/ \E c \in Creds : analytics(c)
    \/ \E p \in Procs, c \in Creds : seed_menu(p, c)
    \/ \E p \in Procs, c \in Creds : seed_reviews(p, c)

Continue ==
    \/ \E p \in Procs : seed_menu_insert(p)
    \/ \E p \in Procs : seed_reviews_insert(p)

Next == Tick \/ Request \/ Continue

Spec == Init /\ [][Next]_vars

\* The same server with a pool of one thread: requests run one at a time
SeqInit == Start(1)

SeqSpec == SeqInit /\ [][Next]_vars

---------------------------------------------------------------------------
(* Vocabulary of the properties *)

\* A step of an admin-protected route made with credentials c.  Every
\* handler but a seed that starts inserting names itself in the response,
\* and answers what require_admin answered when that refused; the inputs of
\* a handler are tried only on the steps that can be its own.
Answers(route) == resp'.route = route

AdminRoute(c) ==
    \/ Answers("create_menu_item") /\ \E item \in MenuItemInputs : create_menu_item(c, item)
    \/ Answers("delete_menu_item") /\ \E id \in IdStrings : delete_menu_item(c, id)
    \/ \E p \in Procs : seed_menu(p, c)
    \/ \E p \in Procs : seed_reviews(p, c)
    \/ Answers("list_reservations") /\ \E l \in Limits : list_reservations(c, l)
    \/ Answers("update_reservation_status")
          /\ \E id \in IdStrings, s \in PatchStatuses : update_reservation_status(c, id, s)
    \/ Answers("list_orders") /\ \E l \in Limits : list_orders(c, l)
    \/ Answers("update_order_status")
          /\ \E id \in IdStrings, s \in PatchStatuses, ps \in PatchPayments :
                update_order_status(c, id, s, ps)
    \/ Answers("analytics") /\ \E c2 \in {c} : analytics(c2)

AdminStep(c) ==
    LET auth == require_admin(c, clock) IN
    /\ auth.ok \/ (resp'.code = auth.code /\ resp'.detail = auth.detail)
    /\ AdminRoute(c)

SignedByServer(c) == c.kind = "jwt" /\ c.key = JWT_SECRET
SignedByOther(c) == c.kind = "jwt" /\ c.key # JWT_SECRET
PastExpiry(c) == c.exp * TicksPerSec <= clock
ValidAdmin(c) == SignedByServer(c) /\ ~PastExpiry(c) /\ c.role = "admin"

Refused(code, detail) ==
    /\ resp'.code = code
    /\ resp'.detail = detail
    /\ UNCHANGED store
    /\ pc' = pc

ReservationStatuses == {"pending", "confirmed", "cancelled"}
OrderStatuses == {"received", "preparing", "ready", "completed", "cancelled"}
PaymentStatuses == {"pending", "paid", "refunded"}

SampleNames == {MENU_SAMPLE[i].name : i \in 1 .. Len(MENU_SAMPLE)}
SeededMenu == {m \in menuitem : m.name \in SampleNames}

\* The identifier string id names no document of coll
NoMatch(coll, id) == \A d \in coll : oid(d._id) # id

\* What the gate must answer to credentials c, "-" when it may admit them
MustRefuse(c) ==
    IF c.kind = "none" THEN "Missing credentials"
    ELSE IF SignedByOther(c) THEN "Invalid token"
    ELSE IF SignedByServer(c) /\ PastExpiry(c) THEN "Token expired"
    ELSE "-"

\* The fields of an order a status PATCH has to keep
OrderKept == {"_id", "items", "subtotal", "taxes", "total", "customer_name"}

\* The document id of coll was written at the time of the step's end
WrittenNow(coll, id) ==
    \E d \in coll : oid(d._id) = id /\ d.updated_at = clock' /\ d.created_at <= d.updated_at

---------------------------------------------------------------------------
(* C1: on every admin-protected route a request with no token is answered  *)
(* 401 Missing credentials, one with an expired token 401 Token expired,   *)
(* one with a token signed by another secret 401 Invalid token; the        *)
(* handler body does not run: no collection changes and no seed starts.    *)
C1_DeniedAdminRequests ==
    [][started' # started =>
       \A c \in Creds :
          MustRefuse(c) # "-" /\ AdminStep(c) => Refused(401, MustRefuse(c))]_vars

C1_Witness ==
    /\ resp.route = "update_order_status"
    /\ resp.code = 401
    /\ resp.detail = "Token expired"
    /\ order # {}

(* C2: on every admin-protected route a token that is correctly signed and *)
(* not expired but whose role is not admin is answered 403 Forbidden.      *)
C2_NonAdminForbidden ==
    [][started' # started => \A c \in Creds :
          AdminStep(c) /\ SignedByServer(c) /\ ~PastExpiry(c) /\ c.role # "admin"
          => resp'.code = 403 /\ resp'.detail = "Forbidden"]_vars

(* C3: login with the admin e-mail in any letter case and the exact        *)
(* password returns a token with role admin and exp = iat + 8 hours; any   *)
(* other pair is answered 401 and carries no token.                        *)
C3_LoginToken ==
    [][Answers("login") => \A e \in Emails, pw \in Passwords : login(e, pw) =>
          IF lower(e) = lower(ADMIN_EMAIL) /\ pw = ADMIN_PASSWORD
          THEN /\ resp'.code = 200
               /\ resp'.token.role = "admin"
               /\ resp'.token.exp = resp'.token.iat + 8 * 3600
          ELSE /\ resp'.code = 401
               /\ resp'.token = NoCreds]_vars

(* C4: with requests served one after the other, a menu seed that finds    *)
(* the collection empty leaves exactly the 6 sample items in it (the 3     *)
(* sample reviews for the review seed), and a seed called by an admin on   *)
(* a collection that holds a document changes nothing and answers          *)
(* "Menu already seeded" ("Reviews already exist").                        *)
C4_SeedIdempotent ==
    [][\A p \in Procs :
          /\ pc[p].at = "seed_menu" /\ pc'[p] = Idle /\ seed_menu_insert(p) =>
                /\ Cardinality(menuitem') = 6
                /\ {m.name : m \in menuitem'} = SampleNames
                /\ resp'.count = 6
          /\ pc[p].at = "seed_reviews" /\ pc'[p] = Idle /\ seed_reviews_insert(p) =>
                Cardinality(review') = 3
          /\ menuitem # {} /\ started' # started =>
                \A c \in Creds : seed_menu(p, c) =>
                   /\ UNCHANGED store
                   /\ pc' = pc
                   /\ ValidAdmin(c) => resp'.code = 200 /\ resp'.detail = "Menu already seeded"
          /\ review # {} /\ started' # started =>
                \A c \in Creds : seed_reviews(p, c) =>
                   /\ UNCHANGED store
                   /\ pc' = pc
                   /\ ValidAdmin(c) => resp'.code = 200 /\ resp'.detail = "Reviews already exist"]_vars

C4_Witness ==
    /\ resp.route = "seed_menu"
    /\ resp.detail = "Menu already seeded"
    /\ Cardinality(menuitem) = 6
    /\ SeededMenu = menuitem
    /\ started = 2

(* C5: every stored reservation has status pending, confirmed or           *)
(* cancelled; every stored order has status received, preparing, ready,    *)
(* completed or cancelled and payment_status pending, paid or refunded.    *)
C5_StatusesValid ==
    /\ \A r \in reservation : r.status \in ReservationStatuses
    /\ \A o \in order : o.status \in OrderStatuses /\ o.payment_status \in PaymentStatuses

(* C6: a status PATCH sent by an admin with an identifier string that      *)
(* names no stored document, well-formed or not, is answered 404 and       *)
(* changes no document.                                                    *)
C6_UnknownIdNotFound ==
    [][Answers("update_reservation_status") \/ Answers("update_order_status") =>
       \A c \in Creds, id \in IdStrings, s \in PatchStatuses :
          /\ ValidAdmin(c) /\ NoMatch(reservation, id)
               /\ update_reservation_status(c, id, s)
             => resp'.code = 404 /\ UNCHANGED store
          /\ \A ps \in PatchPayments :
                ValidAdmin(c) /\ NoMatch(order, id) /\ update_order_status(c, id, s, ps)
                => resp'.code = 404 /\ UNCHANGED store]_vars

C8_SeededAtMostOnce ==
    /\ Cardinality(SeededMenu) <= Len(MENU_SAMPLE)
    /\ Cardinality(review) <= Len(REVIEW_SAMPLE)

(* C9: updated_at of a reservation or an order is the time of its last     *)
(* successful write: creation sets it, not earlier than created_at, and    *)
(* every successful status PATCH sets it to the time of the PATCH.         *)
C9_UpdatedAtTracksWrites ==
    [][resp'.code = 200 /\ started' # started =>
       /\ \A data \in ReservationInputs :
             create_reservation(data) /\ resp'.code = 200
             => WrittenNow(reservation', resp'.id)
       /\ \A o \in OrderInputs :
             create_order(o) /\ resp'.code = 200 => WrittenNow(order', resp'.id)
       /\ \A c \in Creds, id \in IdStrings, s \in PatchStatuses :
             /\ update_reservation_status(c, id, s) /\ resp'.code = 200
                => WrittenNow(reservation', id)
             /\ \A ps \in PatchPayments :
                   update_order_status(c, id, s, ps) /\ resp'.code = 200
                   => WrittenNow(order', id)]_vars

(* C10: an accepted POST /api/reservations answers with the status stored  *)
(* for the new reservation, and both are "pending".                        *)
C10_ReservationResponseStatus ==
    [][Answers("create_reservation") /\ resp'.code = 200 =>
       \A data \in ReservationInputs : create_reservation(data) =>
             /\ resp'.status = "pending"
             /\ \E r \in reservation' : oid(r._id) = resp'.id /\ r.status = resp'.status]_vars
====
